---- MODULE Spec2Model ----
(***************************************************************************)
(* Model of utils/generatePdf.py: ensure_dir and                           *)
(* generate_simple_booking_pdf, run by callers against one filesystem.     *)
(*                                                                         *)
(* A path is the sequence of its components ("out/sub/a.pdf" is            *)
(* <<"out", "sub", "a.pdf">>, the empty string is <<>>).  A text is a      *)
(* sequence of tokens; a file's bytes are the token stream of the page,    *)
(* each cell ended by NL, so documents of different records differ in      *)
(* length.  A Python value is a tagged record: a str or an int.            *)
(*                                                                         *)
(* The f-strings of lines 29-36 reuse the double quote inside their        *)
(* replacement fields, which parses from Python 3.12 on; the model is of   *)
(* the module as that interpreter runs it.  pdf.output(name, "F") is       *)
(* taken as FPDF does it: open(name, "wb"), one write of the buffer,       *)
(* close.                                                                  *)
(***************************************************************************)
EXTENDS Integers, Sequences, FiniteSets, TLC

\* Calls started in one behaviour.
MaxCalls == 2

Callers == {1, 2}

----------------------------------------------------------------------------
(* Python values and their formatting inside an f-string                   *)

StrVal(tokens) == [t |-> "str", s |-> tokens, n |-> 0]
IntVal(k)      == [t |-> "int", s |-> <<>>, n |-> k]

Digit(d) ==
    CASE d = 0 -> "0" [] d = 1 -> "1" [] d = 2 -> "2" [] d = 3 -> "3"
      [] d = 4 -> "4" [] d = 5 -> "5" [] d = 6 -> "6" [] d = 7 -> "7"
      [] d = 8 -> "8" [] d = 9 -> "9"

RECURSIVE DigitsOf(_)
DigitsOf(k) ==
    IF k < 10 THEN <<Digit(k)>> ELSE DigitsOf(k \div 10) \o <<Digit(k % 10)>>

\* format(value, "") as an f-string replacement field applies it
Format(v) ==
    IF v.t = "int"
    THEN (IF v.n < 0 THEN <<"-">> \o DigitsOf(0 - v.n) ELSE DigitsOf(v.n))
    ELSE v.s

\* The default of every booking_details.get(key, "N/A")
NA == StrVal(<<"N/A">>)

\* dict.get(key, default)
Get(d, key, default) == IF key \in DOMAIN d THEN d[key] ELSE default

----------------------------------------------------------------------------
(* The page: FPDF.cell(..., ln=1) and FPDF.ln                              *)

NL == "\n"

\* pdf.cell(200, 10, txt=..., ln=1): the text, then the move to the next line
Cell(page, txt) == page \o txt \o <<NL>>

\* pdf.ln(10): a line break with no text
Ln(page) == page \o <<NL>>

TitleText == <<"Tourtastic - Booking Confirmation">>
ThanksText == <<"Thank you for booking with Tourtastic!">>

\* The eight f-strings of lines 29-36, in their order
RowBookingId(d)   == <<"Booking ID: ">> \o Format(Get(d, "bookingId", NA))
RowCustomer(d)    == <<"Customer: ">> \o Format(Get(d, "customerName", NA))
RowEmail(d)       == <<"Email: ">> \o Format(Get(d, "customerEmail", NA))
RowType(d)        == <<"Type: ">> \o Format(Get(d, "type", NA))
RowDestination(d) == <<"Destination: ">> \o Format(Get(d, "destination", NA))
RowDate(d)        == <<"Date: ">> \o Format(Get(d, "bookingDate", NA))
RowAmount_NoSymbol(d) == <<"Amount: ">> \o Format(Get(d, "amount", NA))
RowAmount(d)      == <<"Amount: $">> \o Format(Get(d, "amount", NA))
RowStatus(d)      == <<"Status: ">> \o Format(Get(d, "status", NA))

\* Lines 18-38: the page built from booking_details
RenderPage(d) ==
    LET p1  == Cell(<<>>, TitleText)
        p2  == Ln(p1)
        p3  == Cell(p2, RowBookingId(d))
        p4  == Cell(p3, RowCustomer(d))
        p5  == Cell(p4, RowEmail(d))
        p6  == Cell(p5, RowType(d))
        p7  == Cell(p6, RowDestination(d))
        p8  == Cell(p7, RowDate(d))
        p9  == Cell(p8, RowAmount(d))
        p10 == Cell(p9, RowStatus(d))
        p11 == Ln(p10)
    IN  Cell(p11, ThanksText)

----------------------------------------------------------------------------
(* Paths and the filesystem                                                *)

OutputPaths ==
    { <<"a.pdf">>, <<"out", "a.pdf">>,
      <<"out", "sub", "a.pdf">>, <<"out", "sub", "b.pdf">> }

\* os.path.dirname
Dirname(p) == SubSeq(p, 1, Len(p) - 1)

NoFile == [exists |-> FALSE, data |-> <<>>]

\* An open that keeps the old bytes (mode "r+b")
OpenTruncate_Keep(f) == [exists |-> TRUE, data |-> f.data]

\* open(name, "wb") of an existing or new file: its length becomes 0
OpenTruncate(f) == [exists |-> TRUE, data |-> <<>>]

\* f.write(b) on a handle at offset 0: b over the first Len(b) units
WriteAt0(data, b) ==
    [i \in 1..(IF Len(data) > Len(b) THEN Len(data) ELSE Len(b)) |->
        IF i <= Len(b) THEN b[i] ELSE data[i]]

\* os.mkdir in place of os.makedirs: the last directory only
MakedirsCreates_LeafOnly(d) == {d}

\* The directories os.makedirs(d) creates: d and its missing ancestors
MakedirsCreates(d) == { SubSeq(d, 1, k) : k \in 1..Len(d) }

----------------------------------------------------------------------------
(* Inputs                                                                  *)

JaneRec ==
    [bookingId     |-> StrVal(<<"BK123">>),
     customerName  |-> StrVal(<<"Jane", " ", "Doe">>),
     customerEmail |-> StrVal(<<"jane@example.com">>),
     type          |-> StrVal(<<"flight">>),
     destination   |-> StrVal(<<"New", " ", "York">>),
     bookingDate   |-> StrVal(<<"2025-01-01">>),
     amount        |-> IntVal(250),
     status        |-> StrVal(<<"confirmed">>)]

BobRec ==
    [bookingId     |-> StrVal(<<"BK7">>),
     customerName  |-> StrVal(<<"Bob">>),
     customerEmail |-> StrVal(<<"bob@example.com">>),
     type          |-> StrVal(<<"hotel">>),
     destination   |-> StrVal(<<"Paris">>),
     bookingDate   |-> StrVal(<<"2025-02-02">>),
     amount        |-> IntVal(5),
     status        |-> StrVal(<<"pending">>)]

EmptyRec == [k \in {} |-> NA]

KeySet == DOMAIN JaneRec

\* The records of the concurrent and the sequential specification
Records == {JaneRec, BobRec, EmptyRec}

\* The records of the rendering specification: every subset of the keys,
\* the two-valued keys taking either record's value
TwoValued == {"customerName", "amount"}

RenderRecords ==
    { [k \in K |-> IF k \in TwoValued /\ ch[k] = 2 THEN BobRec[k] ELSE JaneRec[k]] :
        K \in SUBSET KeySet, ch \in [TwoValued -> {1, 2}] }

RenderPaths == { <<"a.pdf">>, <<"out", "a.pdf">> }

----------------------------------------------------------------------------
(* State                                                                   *)

VARIABLES
    dirs,           \* the directories that exist (besides the current one)
    files,          \* OutputPaths -> [exists, data]
    ncalls,         \* calls started so far
    pc,             \* each caller's position in generate_simple_booking_pdf
    rec,            \* booking_details of the caller's current call
    path,           \* output_path of the caller's current call
    page,           \* the pdf object's page
    err,            \* the exception e caught at line 44
    exc,            \* the exception the call raised to its caller
    result,         \* the value the call returned
    log,            \* what the call printed
    attempts,       \* how many times the call opened the output file
    written,        \* how many units the call's write put into the file
    pre,            \* the file at output_path when the call started
    preDirs,        \* the directories that existed when the call started
    parentExisted   \* whether output_path's parent directory existed then

vars == <<dirs, files, ncalls, pc, rec, path, page, err, exc, result, log,
          attempts, written, pre, preDirs, parentExisted>>

fsVars   == <<dirs, files>>
callVars == <<rec, path, pre, preDirs, parentExisted>>

NoErr    == "none"
NoResult == <<>>

\* The errors the environment injects while the file is written
EnvErrors == {"PermissionError", "OSError(ENOSPC)"}

\* os.path.exists
PathExists(d) ==
    d # <<>> /\ (d \in dirs \/ (d \in OutputPaths /\ files[d].exists))

\* The parent directory of p exists: the current directory always does
ParentExists(p) == Dirname(p) = <<>> \/ Dirname(p) \in dirs

Idle(c) == pc[c] \in {"idle", "returned", "raised"}

Init ==
    /\ dirs = {}
    /\ files = [p \in OutputPaths |-> NoFile]
    /\ ncalls = 0
    /\ pc = [c \in Callers |-> "idle"]
    /\ rec = [c \in Callers |-> EmptyRec]
    /\ path = [c \in Callers |-> <<"a.pdf">>]
    /\ page = [c \in Callers |-> <<>>]
    /\ err = [c \in Callers |-> NoErr]
    /\ exc = [c \in Callers |-> NoErr]
    /\ result = [c \in Callers |-> NoResult]
    /\ log = [c \in Callers |-> <<>>]
    /\ attempts = [c \in Callers |-> 0]
    /\ written = [c \in Callers |-> 0]
    /\ pre = [c \in Callers |-> NoFile]
    /\ preDirs = [c \in Callers |-> {}]
    /\ parentExisted = [c \in Callers |-> TRUE]

----------------------------------------------------------------------------
(* generate_simple_booking_pdf, one action per step                        *)

\* Line 15: a call begins with its two arguments
Start(c, d, p) ==
    /\ Idle(c)
    /\ ncalls < MaxCalls
    /\ ncalls' = ncalls + 1
    /\ pc' = [pc EXCEPT ![c] = "ensure_dir"]
    /\ rec' = [rec EXCEPT ![c] = d]
    /\ path' = [path EXCEPT ![c] = p]
    /\ page' = [page EXCEPT ![c] = <<>>]
    /\ err' = [err EXCEPT ![c] = NoErr]
    /\ exc' = [exc EXCEPT ![c] = NoErr]
    /\ result' = [result EXCEPT ![c] = NoResult]
    /\ log' = [log EXCEPT ![c] = <<>>]
    /\ attempts' = [attempts EXCEPT ![c] = 0]
    /\ written' = [written EXCEPT ![c] = 0]
    /\ pre' = [pre EXCEPT ![c] = files[p]]
    /\ preDirs' = [preDirs EXCEPT ![c] = dirs]
    /\ parentExisted' = [parentExisted EXCEPT ![c] = ParentExists(p)]
    /\ UNCHANGED fsVars

\* Lines 9-10: directory = os.path.dirname(file_path); the exists test
EnsureDirCheck(c) ==
    /\ pc[c] = "ensure_dir"
    /\ pc' = [pc EXCEPT ![c] =
                IF ~PathExists(Dirname(path[c])) THEN "makedirs" ELSE "build"]
    /\ UNCHANGED <<fsVars, ncalls, callVars, page, err, exc, result, log, attempts, written>>

\* Line 11: os.makedirs(directory), exist_ok left False.  It raises
\* FileNotFoundError for the empty string and FileExistsError for a
\* directory that exists by now; ensure_dir is called outside the try.
Makedirs(c) ==
    LET d == Dirname(path[c]) IN
    /\ pc[c] = "makedirs"
    /\ IF d = <<>>
       THEN /\ pc' = [pc EXCEPT ![c] = "raised"]
            /\ exc' = [exc EXCEPT ![c] = "FileNotFoundError"]
            /\ dirs' = dirs
       ELSE IF d \in dirs
       THEN /\ pc' = [pc EXCEPT ![c] = "raised"]
            /\ exc' = [exc EXCEPT ![c] = "FileExistsError"]
            /\ dirs' = dirs
       ELSE /\ pc' = [pc EXCEPT ![c] = "build"]
            /\ exc' = exc
            /\ dirs' = dirs \cup MakedirsCreates(d)
    /\ UNCHANGED <<files, ncalls, callVars, page, err, result, log, attempts, written>>

\* Lines 18-38: the page
Build(c) ==
    /\ pc[c] = "build"
    /\ page' = [page EXCEPT ![c] = RenderPage(rec[c])]
    /\ pc' = [pc EXCEPT ![c] = "output"]
    /\ UNCHANGED <<fsVars, ncalls, callVars, err, exc, result, log, attempts, written>>

\* Line 41, pdf.output(output_path, "F"): the file is opened for writing,
\* which fails with FileNotFoundError when its directory is missing
Open(c) ==
    /\ pc[c] = "output"
    /\ attempts' = [attempts EXCEPT ![c] = @ + 1]
    /\ IF Dirname(path[c]) = <<>> \/ Dirname(path[c]) \in dirs
       THEN /\ files' = [files EXCEPT ![path[c]] = OpenTruncate(@)]
            /\ pc' = [pc EXCEPT ![c] = "write"]
            /\ err' = err
       ELSE /\ files' = files
            /\ pc' = [pc EXCEPT ![c] = "except"]
            /\ err' = [err EXCEPT ![c] = "FileNotFoundError"]
    /\ UNCHANGED <<dirs, ncalls, callVars, page, exc, result, log, written>>

\* Line 41: the open fails in the environment (permission denied)
OpenFail(c) ==
    /\ pc[c] = "output"
    /\ attempts' = [attempts EXCEPT ![c] = @ + 1]
    /\ err' = [err EXCEPT ![c] = "PermissionError"]
    /\ pc' = [pc EXCEPT ![c] = "except"]
    /\ UNCHANGED <<fsVars, ncalls, callVars, page, exc, result, log, written>>

\* Line 41: the page is written through the handle, from offset 0
WriteOk(c) ==
    /\ pc[c] = "write"
    /\ files' = [files EXCEPT ![path[c]] =
                    [exists |-> TRUE, data |-> WriteAt0(@.data, page[c])]]
    /\ written' = [written EXCEPT ![c] = Len(page[c])]
    /\ pc' = [pc EXCEPT ![c] = "close"]
    /\ UNCHANGED <<dirs, ncalls, callVars, page, err, exc, result, log, attempts>>

\* Where a failing write may stop: before the first unit, after it, half
\* way, one unit short of the end
FailPoints(b) == {0, 1, Len(b) \div 2, Len(b) - 1} \cap (0..(Len(b) - 1))

\* Line 41: the write fails (disk full) after k units reached the file
WriteFail(c, k) ==
    /\ pc[c] = "write"
    /\ k \in FailPoints(page[c])
    /\ files' = [files EXCEPT ![path[c]] =
                    [exists |-> TRUE,
                     data |-> WriteAt0(@.data, SubSeq(page[c], 1, k))]]
    /\ written' = [written EXCEPT ![c] = k]
    /\ err' = [err EXCEPT ![c] = "OSError(ENOSPC)"]
    /\ pc' = [pc EXCEPT ![c] = "except"]
    /\ UNCHANGED <<dirs, ncalls, callVars, page, exc, result, log, attempts>>

\* Line 41: the handle is closed and pdf.output returns
Close(c) ==
    /\ pc[c] = "close"
    /\ pc' = [pc EXCEPT ![c] = "print_ok"]
    /\ UNCHANGED <<fsVars, ncalls, callVars, page, err, exc, result, log, attempts, written>>

\* Line 42
PrintOk(c) ==
    /\ pc[c] = "print_ok"
    /\ log' = [log EXCEPT ![c] =
                 Append(@, [msg |-> "PDF generated successfully at ", arg |-> path[c]])]
    /\ pc' = [pc EXCEPT ![c] = "return"]
    /\ UNCHANGED <<fsVars, ncalls, callVars, page, err, exc, result, attempts, written>>

\* Line 43
Return(c) ==
    /\ pc[c] = "return"
    /\ result' = [result EXCEPT ![c] = path[c]]
    /\ pc' = [pc EXCEPT ![c] = "returned"]
    /\ UNCHANGED <<fsVars, ncalls, callVars, page, err, exc, log, attempts, written>>

\* An except clause that does not print
ExceptLog_Silent(c) ==
    /\ pc[c] = "except"
    /\ pc' = [pc EXCEPT ![c] = "reraise"]
    /\ UNCHANGED <<fsVars, ncalls, callVars, page, err, exc, result, log, attempts, written>>

\* Lines 44-45: except Exception as e: print(...)
ExceptLog(c) ==
    /\ pc[c] = "except"
    /\ log' = [log EXCEPT ![c] =
                 Append(@, [msg |-> "Error generating PDF: ", arg |-> err[c]])]
    /\ pc' = [pc EXCEPT ![c] = "reraise"]
    /\ UNCHANGED <<fsVars, ncalls, callVars, page, err, exc, result, attempts, written>>

\* An except clause that returns the path in place of raising
Reraise_Swallow(c) ==
    /\ pc[c] = "reraise"
    /\ result' = [result EXCEPT ![c] = path[c]]
    /\ pc' = [pc EXCEPT ![c] = "returned"]
    /\ UNCHANGED <<fsVars, ncalls, callVars, page, err, exc, log, attempts, written>>

\* Line 46: the bare raise
Reraise(c) ==
    /\ pc[c] = "reraise"
    /\ exc' = [exc EXCEPT ![c] = err[c]]
    /\ pc' = [pc EXCEPT ![c] = "raised"]
    /\ UNCHANGED <<fsVars, ncalls, callVars, page, err, result, log, attempts, written>>

\* One step of a call in progress
Step(c) ==
    \/ EnsureDirCheck(c)
    \/ Makedirs(c)
    \/ Build(c)
    \/ Open(c)
    \/ OpenFail(c)
    \/ WriteOk(c)
    \/ \E k \in FailPoints(page[c]) : WriteFail(c, k)
    \/ Close(c)
    \/ PrintOk(c)
    \/ Return(c)
    \/ ExceptLog(c)
    \/ Reraise(c)

----------------------------------------------------------------------------
(* Specifications                                                          *)

\* Two callers, one call each, that may run at the same time
ConcStart(c, d, p) == pc[c] = "idle" /\ Start(c, d, p)

Next ==
    \E c \in Callers :
        \/ \E d \in Records, p \in OutputPaths : ConcStart(c, d, p)
        \/ Step(c)

Spec == Init /\ [][Next]_vars

\* One caller, one call after the other
SeqNext ==
    \/ \E d \in Records, p \in OutputPaths : Start(1, d, p)
    \/ Step(1)

SeqSpec == Init /\ [][SeqNext]_vars

\* One call of caller 1, its record drawn from RenderRecords
RenderInit ==
    /\ dirs = {}
    /\ files = [p \in OutputPaths |-> NoFile]
    /\ ncalls = 1
    /\ pc = [c \in Callers |-> IF c = 1 THEN "ensure_dir" ELSE "idle"]
    /\ rec \in [Callers -> RenderRecords]
    /\ rec[2] = EmptyRec
    /\ path \in [Callers -> RenderPaths]
    /\ path[2] = <<"a.pdf">>
    /\ page = [c \in Callers |-> <<>>]
    /\ err = [c \in Callers |-> NoErr]
    /\ exc = [c \in Callers |-> NoErr]
    /\ result = [c \in Callers |-> NoResult]
    /\ log = [c \in Callers |-> <<>>]
    /\ attempts = [c \in Callers |-> 0]
    /\ written = [c \in Callers |-> 0]
    /\ pre = [c \in Callers |-> NoFile]
    /\ preDirs = [c \in Callers |-> {}]
    /\ parentExisted = [c \in Callers |-> ParentExists(path[c])]

RenderNext == Step(1)

RenderSpec == RenderInit /\ [][RenderNext]_vars

----------------------------------------------------------------------------
(* Vocabulary of the properties                                            *)

\* The file at the call's output_path
FileOf(c) == files[path[c]]

\* The call left ensure_dir by an exception: nothing was caught at line 44
DirStepRaised(c) == pc[c] = "raised" /\ err[c] = NoErr

\* The call is past ensure_dir
PastDirStep(c) == pc[c] \notin {"idle", "ensure_dir", "makedirs"}

\* The lines of a token stream, each ended by NL
RECURSIVE SplitLines(_, _)
SplitLines(data, cur) ==
    IF data = <<>> THEN (IF cur = <<>> THEN <<>> ELSE <<cur>>)
    ELSE IF Head(data) = NL THEN <<cur>> \o SplitLines(Tail(data), <<>>)
    ELSE SplitLines(Tail(data), Append(cur, Head(data)))

\* The characters of a line, as one string
RECURSIVE Text(_)
Text(tokens) == IF tokens = <<>> THEN "" ELSE Head(tokens) \o Text(Tail(tokens))

\* The text extracted from a file: its non-blank lines, in order
ExtractText(data) ==
    LET ls == SplitLines(data, <<>>)
        keep == SelectSeq(ls, LAMBDA l : l # <<>>)
    IN  [i \in 1..Len(keep) |-> Text(keep[i])]

KeyOrder ==
    <<"bookingId", "customerName", "customerEmail", "type", "destination",
      "bookingDate", "amount", "status">>

Labels ==
    <<"Booking ID", "Customer", "Email", "Type", "Destination", "Date",
      "Amount", "Status">>

\* How a value of the input records reads
Shown(v) ==
    IF v = IntVal(250) THEN "250" ELSE IF v = IntVal(5) THEN "5" ELSE Text(v.s)

----------------------------------------------------------------------------
(* Properties                                                              *)

\* C1: after any call, the file at output_path is the complete document of
\* the call and the call returned, or the call raised and the path holds no
\* file or the file it held before the call, untouched.
C1_NoPartialState ==
    \A c \in Callers :
        /\ pc[c] = "returned" =>
              FileOf(c) = [exists |-> TRUE, data |-> RenderPage(rec[c])]
        /\ pc[c] = "raised" => (~FileOf(c).exists \/ FileOf(c) = pre[c])

\* C2: when the parent directory of output_path exists as the call starts
\* (the current directory, for a path with no directory part), ensure_dir
\* does not raise and creates no directory.
C2_DirStepNeverFails ==
    \A c \in Callers :
        parentExisted[c] =>
            /\ ~DirStepRaised(c)
            /\ PastDirStep(c) => dirs = preDirs[c]

\* C3: in the document of a call that returned, the row of every key missing
\* from the record is at its fixed position and reads "<Label>: N/A".
C3_MissingRowsNA ==
    \A c \in Callers :
        pc[c] = "returned" =>
            LET text == ExtractText(FileOf(c).data) IN
            /\ Len(text) = 10
            /\ \A i \in 1..8 :
                  KeyOrder[i] \notin DOMAIN rec[c] =>
                      text[i + 1] = Labels[i] \o ": " \o "N/A"

\* In every state: the file is opened at most once per call, a caught error
\* puts the call in the handler, the handler has printed the error before
\* the raise, and the error raised is the one caught.
C4_LoggedBeforeRaise ==
    \A c \in Callers :
        /\ attempts[c] <= 1
        /\ err[c] # NoErr => pc[c] \in {"except", "reraise", "raised"}
        /\ (pc[c] \in {"reraise", "raised"} /\ err[c] # NoErr) =>
              log[c] = <<[msg |-> "Error generating PDF: ", arg |-> err[c]]>>
        /\ (pc[c] = "raised" /\ err[c] # NoErr) =>
              (exc[c] = err[c] /\ attempts[c] = 1 /\ result[c] = NoResult)

\* In every step of the handler: the filesystem is left as it is and the
\* file is not opened again.
C4_HandlerStep ==
    \A c \in Callers :
        (pc[c] \in {"except", "reraise"} /\ pc'[c] # pc[c]) =>
            (files' = files /\ dirs' = dirs /\ attempts' = attempts)

\* C4: a failure of the file write is printed with its message and then
\* raised to the caller as the same error: the print comes before the raise,
\* the file is opened once per call (no retry), and the handler leaves the
\* filesystem as the failure left it (no cleanup).
C4_LogThenReraise == [](C4_LoggedBeforeRaise) /\ [][C4_HandlerStep]_vars

C4_Witness ==
    \E c \in Callers :
        /\ pc[c] = "raised"
        /\ exc[c] = "OSError(ENOSPC)"
        /\ FileOf(c).data # <<>>
        /\ Len(log[c]) = 1

\* C5: when two calls on the same output_path have both returned, the file
\* is the complete document of one of the two.
C5_LastWriterWins ==
    \A c, o \in Callers :
        (c # o /\ path[c] = path[o] /\ pc[c] = "returned" /\ pc[o] = "returned") =>
            FileOf(c).data \in {RenderPage(rec[c]), RenderPage(rec[o])}

\* C10: two calls with different output_paths under one parent directory
\* that did not exist when either started both get past ensure_dir without
\* an exception, and each one that returned left its own document.
C10_DistinctPathsIndependent ==
    \A c, o \in Callers :
        (/\ c # o
         /\ path[c] # path[o]
         /\ Dirname(path[c]) = Dirname(path[o])
         /\ ~parentExisted[c] /\ ~parentExisted[o]
         /\ pc[c] # "idle" /\ pc[o] # "idle") =>
            /\ ~DirStepRaised(c)
            /\ pc[c] = "returned" => FileOf(c).data = RenderPage(rec[c])

\* C6: a call whose parent directory does not exist as it starts finds the
\* directory and every ancestor present from the end of ensure_dir on,
\* raises only when the environment fails the write, and on return has
\* returned output_path with the document in the file.
C6_MissingParentCreated ==
    \A c \in Callers :
        ~parentExisted[c] =>
            /\ PastDirStep(c) =>
                  (\A k \in 1..Len(Dirname(path[c])) :
                        SubSeq(path[c], 1, k) \in dirs)
            /\ pc[c] = "raised" => exc[c] \in EnvErrors
            /\ pc[c] = "returned" =>
                  /\ result[c] = path[c]
                  /\ FileOf(c) = [exists |-> TRUE, data |-> RenderPage(rec[c])]

C6_Witness ==
    /\ pc[1] = "returned"
    /\ ~parentExisted[1]
    /\ preDirs[1] = {}
    /\ path[1] = <<"out", "sub", "a.pdf">>
    /\ {<<"out">>, <<"out", "sub">>} \subseteq dirs

\* C7: a call on a path that already holds a file does not raise because of
\* the file, and on return the file is exactly the document of this call's
\* record, with nothing of the earlier content left.
C7_Overwrite ==
    \A c \in Callers :
        pre[c].exists =>
            /\ pc[c] = "raised" => exc[c] \in EnvErrors
            /\ pc[c] = "returned" =>
                  FileOf(c) = [exists |-> TRUE, data |-> RenderPage(rec[c])]

C7_Witness ==
    /\ pc[1] = "returned"
    /\ rec[1] = BobRec
    /\ pre[1] = [exists |-> TRUE, data |-> RenderPage(JaneRec)]
    /\ FileOf(1).data = RenderPage(BobRec)

\* C8: for a record with all eight keys, the text of the document of a call
\* that returned is the title, the eight rows in order, each its label,
\* ": " and the value (the amount after "$"), and the thank-you line.
C8_FullRecordText ==
    \A c \in Callers :
        (pc[c] = "returned" /\ DOMAIN rec[c] = KeySet) =>
            ExtractText(FileOf(c).data) =
                << "Tourtastic - Booking Confirmation",
                   "Booking ID" \o ": " \o Shown(rec[c].bookingId),
                   "Customer" \o ": " \o Shown(rec[c].customerName),
                   "Email" \o ": " \o Shown(rec[c].customerEmail),
                   "Type" \o ": " \o Shown(rec[c].type),
                   "Destination" \o ": " \o Shown(rec[c].destination),
                   "Date" \o ": " \o Shown(rec[c].bookingDate),
                   "Amount" \o ": " \o "$" \o Shown(rec[c].amount),
                   "Status" \o ": " \o Shown(rec[c].status),
                   "Thank you for booking with Tourtastic!" >>

C8_Witness ==
    /\ pc[1] = "returned"
    /\ DOMAIN rec[1] = KeySet
    /\ rec[1].amount = IntVal(250)
    /\ rec[1].customerName = BobRec.customerName
    /\ ExtractText(FileOf(1).data)[8] = "Amount: $250"

\* C9: a call ends by returning output_path, after its write put the whole
\* page into the file without error, or by raising; it returns nothing else
\* and does not return after a failed write.
C9_TwoOutcomes ==
    \A c \in Callers :
        /\ pc[c] = "returned" =>
              /\ result[c] = path[c]
              /\ written[c] = Len(RenderPage(rec[c]))
              /\ attempts[c] = 1
              /\ err[c] = NoErr /\ exc[c] = NoErr
        /\ pc[c] = "raised" => (exc[c] # NoErr /\ result[c] = NoResult)
        /\ result[c] # NoResult => pc[c] = "returned"
        /\ (err[c] # NoErr \/ exc[c] # NoErr) => pc[c] # "returned"

C9_Witness ==
    \E c, o \in Callers :
        /\ pc[c] = "returned" /\ result[c] = <<"out", "a.pdf">>
        /\ pc[o] = "raised" /\ exc[o] = "PermissionError"

====
